---- MODULE Spec2Model ----
(***************************************************************************)
(* Token lifecycle of the Account class (src/src/account.js) together with *)
(* the utilities it chains: the retry-fetch executor, the expiry check,    *)
(* the response validator/parser and the JSON (de)serialisation of the     *)
(* storage blob.                                                           *)
(***************************************************************************)
EXTENDS Integers, Sequences, FiniteSets, TLC

\* ------------------------------------------------------------------ bounds
MaxTicks == 3      \* how many times the clock advances
MaxCalls == 1      \* how many API calls are started in one behaviour
MaxRetries == 3    \* largest `retries` handed to a standalone fetchRetry
MaxExpiresIn == 4  \* largest expires_in (seconds) of inputs and responses

\* ------------------------------------------------------ program constants
MAX_AJAX_RETRY == 3
AJAX_RETRY_DELAY == 1000
LEEWAY == 3000

\* --------------------------------------------------------------- JS values
\* A JavaScript value of a numeric field: a tagged record, so that undefined,
\* null, NaN, numbers and strings stay distinct values.
Undefined == [t |-> "undefined", n |-> 0]
Null == [t |-> "null", n |-> 0]
NaN == [t |-> "NaN", n |-> 0]
Num(n) == [t |-> "number", n |-> n]
NumStr(n) == [t |-> "numstr", n |-> n]   \* the string "<n>", e.g. "4"
Str == [t |-> "string", n |-> 0]         \* a non-numeric string, e.g. "abc"

\* A string field that is not there (undefined / key missing).
Missing == "undefined"

\* JS truthiness of a numeric-field value (`if (_.expires_in)`, `!x.expires_time`).
Truthy(v) ==
  CASE v.t = "number" -> v.n # 0
    [] v.t = "numstr" -> TRUE
    [] v.t = "string" -> TRUE
    [] OTHER -> FALSE

\* Number(v)
Number(v) ==
  CASE v.t = "number" -> v
    [] v.t = "numstr" -> Num(v.n)
    [] v.t = "null" -> Num(0)
    [] OTHER -> NaN

isNaN(v) == v.t = "NaN"

\* JSON.stringify of one property value followed by JSON.parse: NaN becomes
\* null, an undefined property is dropped (reads back as undefined).
JsonValue(v) == IF v.t = "NaN" THEN Null ELSE v

\* ------------------------------------------------------------- TokenData
TokenData(at, rt, ein, etime, tt) ==
  [access_token |-> at, refresh_token |-> rt, expires_in |-> ein,
   expires_time |-> etime, token_type |-> tt]

\* The empty object {}.
EmptyData == TokenData(Missing, Missing, Undefined, Undefined, Missing)

\* JSON.parse(JSON.stringify(d)) of a TokenData object.
JsonRoundTrip(d) ==
  [d EXCEPT !.expires_in = JsonValue(@), !.expires_time = JsonValue(@)]

\* The value of a storage slot: getItem gives null ("none"), a string that is
\* not JSON ("bad"), or the JSON text of an object ("json", held parsed).
NoItem == [kind |-> "none", rec |-> EmptyData]
BadItem == [kind |-> "bad", rec |-> EmptyData]
JsonItem(d) == [kind |-> "json", rec |-> JsonRoundTrip(d)]

\* --------------------------------------------------------- pure utilities
\* A variant of isExpired that already expires the record at the boundary.
isExpiredAtBoundary(present, x, leeway, t) ==
  \/ ~present
  \/ ~Truthy(x.expires_time)
  \/ LET e == Number(x.expires_time)
     IN  ~isNaN(e) /\ t >= e.n - leeway

\* isExpired(x, leeway) evaluated when Date.now() = t.  `present` tells whether
\* x is there at all (`!x`).
isExpired(present, x, leeway, t) ==
  \/ ~present
  \/ ~Truthy(x.expires_time)
  \/ LET e == Number(x.expires_time)
     IN  ~isNaN(e) /\ t > e.n - leeway

\* validResponse: the status is there and in [200, 300).
validResponse(status) == status # 0 /\ status >= 200 /\ status < 300

\* A variant of StoreExpiry that leaves Date.now() out of the sum.
StoreExpiryNoClock(ein, t) ==
  IF Truthy(ein)
  THEN LET expin == Number(ein)
       IN  IF isNaN(expin)
           THEN [ok |-> FALSE, v |-> Num(0)]
           ELSE [ok |-> TRUE, v |-> Num(expin.n * 1000)]
  ELSE [ok |-> TRUE, v |-> Num(0)]

\* The expires_time Account.store derives at time t; ok = FALSE is the throw
\* of 'Wrong `expires_in` value'.
StoreExpiry(ein, t) ==
  IF Truthy(ein)
  THEN LET expin == Number(ein)
       IN  IF isNaN(expin)
           THEN [ok |-> FALSE, v |-> Num(0)]
           ELSE [ok |-> TRUE, v |-> Num(t + expin.n * 1000)]
  ELSE [ok |-> TRUE, v |-> Num(0)]

\* `storageLabel || this.id`
EffLabel(storageLabel, id) == IF storageLabel # "" THEN storageLabel ELSE id

\* Account.store(data, storageLabel) at time t: whether it resolves, the
\* object it resolves to, the key it writes and the error it rejects with.
store(data, storageLabel, id, t) ==
  LET label == EffLabel(storageLabel, id)
      e == StoreExpiry(data.expires_in, t)
  IN  IF label = ""
      THEN [ok |-> FALSE, w |-> EmptyData, key |-> label, error |-> "label is absent"]
      ELSE IF ~e.ok
      THEN [ok |-> FALSE, w |-> EmptyData, key |-> label, error |-> "Wrong expires_in value"]
      ELSE [ok |-> TRUE, w |-> [data EXCEPT !.expires_time = e.v], key |-> label,
            error |-> ""]

\* A variant of load that reads the account's own key whatever the label.
loadOwnKey(st, storageLabel, id) ==
  IF id = ""
  THEN [ok |-> FALSE, rec |-> EmptyData, key |-> id, error |-> "label is absent"]
  ELSE IF st[id].kind = "none"
  THEN [ok |-> FALSE, rec |-> EmptyData, key |-> id, error |-> "Can not load data"]
  ELSE IF st[id].kind = "bad"
  THEN [ok |-> FALSE, rec |-> EmptyData, key |-> id, error |-> "SyntaxError"]
  ELSE [ok |-> TRUE, rec |-> st[id].rec, key |-> id, error |-> ""]

\* Account.load(storageLabel) against the storage map st.
load(st, storageLabel, id) ==
  LET label == EffLabel(storageLabel, id)
  IN  IF label = ""
      THEN [ok |-> FALSE, rec |-> EmptyData, key |-> label, error |-> "label is absent"]
      ELSE IF st[label].kind = "none"
      THEN [ok |-> FALSE, rec |-> EmptyData, key |-> label, error |-> "Can not load data"]
      ELSE IF st[label].kind = "bad"
      THEN [ok |-> FALSE, rec |-> EmptyData, key |-> label, error |-> "SyntaxError"]
      ELSE [ok |-> TRUE, rec |-> st[label].rec, key |-> label, error |-> ""]

\* -------------------------------------------------------------- the state
VARIABLES
  config,   \* the AccountConfig the instance was constructed from
  this,     \* the Account instance's fields
  storage,  \* the storage backend: key -> item
  now,      \* Date.now(), in ms
  calls,    \* the API calls made so far: call number -> its promise chain
  probe     \* the last direct application of the expiry check

vars == <<config, this, storage, now, calls, probe>>

\* 'account_me.aud' is the key `account_${id}` of the sign-in variant
Keys == {"me.aud", "alt", "account_me.aud"}
StorageLabels == {"", "alt"}         \* '' is the default parameter value
CallIds == 1..MaxCalls

\* _createId: `${label}${separator}${audience}` with label defaulting to 'me'.
_createId(audience, label) ==
  LET l == IF label = Missing THEN "me" ELSE label
  IN  [label |-> l,
       id |-> IF l = "me" /\ audience = "aud" THEN "me.aud" ELSE "alt"]

\* The constructor: the fields of `this` from the config.
constructor(c) ==
  LET ids == _createId(c.audience, c.label)
  IN  [id |-> ids.id,
       label |-> ids.label,
       retries |-> IF Truthy(c.retries) THEN c.retries.n ELSE MAX_AJAX_RETRY,
       retryDelay |-> IF Truthy(c.retryDelay) THEN c.retryDelay.n ELSE AJAX_RETRY_DELAY,
       leeway |-> IF Truthy(c.leeway) THEN c.leeway.n ELSE LEEWAY,
       requestMode |-> IF c.requestMode = Missing THEN "id" ELSE c.requestMode]

\* A variant of _requestLabel that ignores requestMode.
_requestLabelAlwaysId(self) == self.id

\* _requestLabel
_requestLabel(self) == IF self.requestMode = "label" THEN self.label ELSE self.id

\* A request value built by the provider collaborator.
Request(kind, ident, token) == [kind |-> kind, ident |-> ident, token |-> token]
NoRequest == Request("none", "", "")

\* A parsed response body, as response.json() resolves it.
Body(at, rt, ein) == [access_token |-> at, refresh_token |-> rt, expires_in |-> ein]
NoBody == Body(Missing, Missing, Undefined)

\* A call that has not been made yet.
NoCall ==
  [op |-> "none", pc |-> "idle", label |-> "", arg |-> EmptyData,
   retries |-> 0, delay |-> 0, n |-> 0, errors |-> <<>>, due |-> 0,
   req |-> NoRequest, response |-> 0, body |-> NoBody,
   loaded |-> EmptyData, hit |-> FALSE, old |-> EmptyData,
   value |-> EmptyData, error |-> "",
   \* requestFn: "same" hands out one request built beforehand (() => req),
   \* "fresh" invokes the provider's request builder on every invocation
   requestFn |-> "same",
   \* the fetch helper of the sign-in variant that runs the chain, if any
   via |-> "",
   \* observations of what the call did; a request is identified by the
   \* number of the builder invocation that made it (0: not made by a builder)
   start |-> [k \in Keys |-> NoItem], built |-> 0, attempts |-> 0,
   failures |-> <<>>, got |-> <<>>, writes |-> 0, removes |-> 0, wkey |-> "",
   at |-> 0, submitted |-> <<>>, failedAt |-> 0, waits |-> <<>>,
   badBody |-> FALSE, signedOut |-> FALSE,
   \* the number of writes to storage made before the call's re-load (oldSeq)
   \* and up to and including its own write (seq)
   oldSeq |-> 0, seq |-> 0]

\* The number of the next call: calls are numbered in the order they start.
Started == Cardinality({i \in DOMAIN calls : calls[i].op # "none"})
NextCall == Started + 1

\* The calls that have written to storage so far (each writes at most once).
WritesDone == Cardinality({i \in DOMAIN calls : calls[i].writes > 0})

Resolve(c, v) == [c EXCEPT !.pc = "resolved", !.value = v]
Reject(c, e) == [c EXCEPT !.pc = "rejected", !.error = e]

\* ------------------------------------------------------ retry-fetch executor
\* A variant of wrappedFetch that allows one attempt too many.
wrappedFetchOffByOne(c, n) ==
  IF n < 0
  THEN Reject([c EXCEPT !.n = n], "errors")
  ELSE LET b == IF c.requestFn = "fresh" THEN c.built + 1 ELSE c.built
       IN  [c EXCEPT !.pc = "fetching", !.n = n, !.attempts = @ + 1,
                     !.built = b, !.submitted = Append(@, b)]

\* wrappedFetch(n): with no attempt left reject with the collected errors,
\* otherwise submit fetch(requestFn()) and wait for its outcome.
wrappedFetch(c, n) ==
  IF n < 1
  THEN Reject([c EXCEPT !.n = n], "errors")
  ELSE LET b == IF c.requestFn = "fresh" THEN c.built + 1 ELSE c.built
       IN  [c EXCEPT !.pc = "fetching", !.n = n, !.attempts = @ + 1,
                     !.built = b, !.submitted = Append(@, b)]

\* fetchRetry(requestFn, { retries, delay }): wrappedFetch(retries)
fetchRetry(c, req, retries, delay) ==
  wrappedFetch([c EXCEPT !.req = req, !.retries = retries, !.delay = delay,
                         !.errors = <<>>], retries)

\* A variant of the .catch of one attempt that starts the next attempt at
\* once, without the delay timer.
OnFetchErrorRetriesAtOnce(c, e, t) ==
  wrappedFetch([c EXCEPT !.errors = Append(@, e)], c.n - 1)

\* .catch of one attempt: errors.push(error); setTimeout(..., delay)
OnFetchError(c, e, t) ==
  [c EXCEPT !.pc = "delay", !.errors = Append(@, e), !.due = t + c.delay]

\* A variant of the timer callback that gives up silently: with no attempt
\* left it neither fetches nor rejects.
OnTimerForgetsReject(c) == IF c.n - 1 < 1 THEN c ELSE wrappedFetch(c, c.n - 1)

\* The timer callback: wrappedFetch(n - 1)
OnTimer(c) == wrappedFetch(c, c.n - 1)

\* A variant of the response handler that retries a response whose status
\* is not valid instead of resolving with it.
OnFetchResponseRetryInvalid(c, status) ==
  LET r == [c EXCEPT !.response = status]
  IN  IF ~validResponse(status) THEN OnFetchError(r, "http status", now)
      ELSE IF c.op = "fetchRetry" THEN Resolve(r, EmptyData)
      ELSE [r EXCEPT !.pc = "parsing"]

\* A variant of the response handler that hands every response on to the
\* body read, whatever its status.
OnFetchResponseIgnoresStatus(c, status) ==
  LET r == [c EXCEPT !.response = status]
  IN  IF c.op = "fetchRetry" THEN Resolve(r, EmptyData)
      ELSE [r EXCEPT !.pc = "parsing"]

\* .then(response => resolve(response)) followed, in an Account pipeline, by
\* .then(validResponse).then(parsedResponse): a valid response starts the
\* asynchronous body read.
OnFetchResponse(c, status) ==
  LET r == [c EXCEPT !.response = status]
  IN  IF c.op = "fetchRetry" THEN Resolve(r, EmptyData)
      ELSE IF validResponse(status) THEN [r EXCEPT !.pc = "parsing"]
      ELSE Reject(r, "http status")

\* A direct call of the executor with `retries` attempts allowed.
Call_fetchRetry(retries) ==
  /\ NextCall \in DOMAIN calls
  /\ calls' = [calls EXCEPT ![NextCall] =
       fetchRetry([NoCall EXCEPT !.op = "fetchRetry", !.start = storage,
                                 !.requestFn = "fresh"],
                  Request("any", "", ""), retries, AJAX_RETRY_DELAY)]
  /\ UNCHANGED <<config, this, storage, now, probe>>

\* The transport fails the attempt in flight.
FetchFails(i, e) ==
  /\ calls[i].pc = "fetching"
  /\ LET c == OnFetchError([calls[i] EXCEPT !.failures = Append(@, e),
                                             !.failedAt = now], e, now)
     IN  calls' = [calls EXCEPT ![i] =
           IF c.pc = "delay" THEN [c EXCEPT !.waits = Append(@, c.due - now)]
           ELSE c]
  /\ UNCHANGED <<config, this, storage, now, probe>>

\* The delay timer of a failed attempt fires.
TimerFires(i) ==
  /\ calls[i].pc = "delay"
  /\ now >= calls[i].due
  /\ calls' = [calls EXCEPT ![i] = OnTimer(@)]
  /\ UNCHANGED <<config, this, storage, now, probe>>

\* The transport delivers a response to the attempt in flight.
FetchResponds(i, status) ==
  /\ calls[i].pc = "fetching"
  /\ calls' = [calls EXCEPT ![i] =
       OnFetchResponse([@ EXCEPT !.got = Append(@, status)], status)]
  /\ UNCHANGED <<config, this, storage, now, probe>>

\* Time passes.
Tick ==
  /\ now < MaxTicks * AJAX_RETRY_DELAY
  /\ now' = now + AJAX_RETRY_DELAY
  /\ UNCHANGED <<config, this, storage, calls, probe>>

\* ------------------------------------------------------ Account operations
\* What a prior store at time 0 left in storage for input d.
StoredAtZero(d) == JsonItem(store(d, "", "me.aud", 0).w)

ExpiresIns ==
  {Undefined, Null, NaN, Str, Num(0), Num(1), Num(MaxExpiresIn), NumStr(MaxExpiresIn)}

\* The TokenData objects callers hand to store.
StoreInputs ==
  {TokenData("A", "R", ein, etime, "Bearer") :
     ein \in ExpiresIns, etime \in {Undefined, Num(1)}}

\* The bodies the provider answers with.
ResponseBodies ==
  {Body("A2", Missing, Num(MaxExpiresIn)), Body("A3", "R2", Undefined),
   Body("A2", Missing, Str)}

\* A new call record for operation op on storageLabel sl.
NewCall(op, sl) ==
  [NoCall EXCEPT !.op = op, !.label = EffLabel(sl, this.id), !.start = storage]

\* load(storageLabel)
Call_load(sl) ==
  /\ NextCall \in DOMAIN calls
  /\ LET l == load(storage, sl, this.id)
         c == NewCall("load", sl)
     IN  calls' = [calls EXCEPT ![NextCall] =
           IF l.ok THEN Resolve(c, l.rec) ELSE Reject(c, l.error)]
  /\ UNCHANGED <<config, this, storage, now, probe>>

\* A variant of remove that reads the entry and leaves it in storage.
removeKeepsEntry(st, storageLabel, id) ==
  LET label == EffLabel(storageLabel, id)
      l == load(st, label, id)
  IN  IF label = ""
      THEN [ok |-> FALSE, rec |-> EmptyData, removed |-> 0, st2 |-> st,
            error |-> "label is absent"]
      ELSE IF l.ok
      THEN [ok |-> TRUE, rec |-> l.rec, removed |-> 1, st2 |-> st, error |-> ""]
      ELSE [ok |-> FALSE, rec |-> EmptyData, removed |-> 0, st2 |-> st,
            error |-> l.error]

\* Account.remove(storageLabel) against the storage map st: load, then
\* removeItem(label); st2 is the storage map it leaves.
remove(st, storageLabel, id) ==
  LET label == EffLabel(storageLabel, id)
      l == load(st, label, id)
  IN  IF label = ""
      THEN [ok |-> FALSE, rec |-> EmptyData, removed |-> 0, st2 |-> st,
            error |-> "label is absent"]
      ELSE IF l.ok
      THEN [ok |-> TRUE, rec |-> l.rec, removed |-> 1,
            st2 |-> [st EXCEPT ![label] = NoItem], error |-> ""]
      ELSE [ok |-> FALSE, rec |-> EmptyData, removed |-> 0, st2 |-> st,
            error |-> l.error]

\* remove(storageLabel)
Call_remove(sl) ==
  /\ NextCall \in DOMAIN calls
  /\ LET r == remove(storage, sl, this.id)
         c == [NewCall("remove", sl) EXCEPT !.removes = r.removed]
     IN  /\ storage' = r.st2
         /\ calls' = [calls EXCEPT ![NextCall] =
              IF r.ok THEN Resolve(c, r.rec) ELSE Reject(c, r.error)]
  /\ UNCHANGED <<config, this, now, probe>>

\* The steps of account's chain after tokenData resolved with data: the
\* account-info request and the hand-over to fetchFn.
accountTokenData(c, data, self) ==
  fetchRetry([c EXCEPT !.built = @ + 1, !.value = data],
             Request("account", _requestLabel(self), data.access_token),
             self.retries, self.retryDelay)

\* What follows the resolution of a call's store with w: tokenData and
\* revokeRefreshToken resolve with it, account goes on with it.
Stored(c, w) ==
  IF c.op = "account" THEN accountTokenData(c, w, this) ELSE Resolve(c, w)

\* The tail of store: setItem(label, JSON.stringify(w)) and resolve with w;
\* or the rejection, which writes nothing.
DoStore(i, c, data, sl) ==
  LET r == store(data, sl, this.id, now)
  IN  IF r.ok
      THEN /\ storage' = [storage EXCEPT ![r.key] = JsonItem(r.w)]
           /\ calls' = [calls EXCEPT ![i] =
                Stored([c EXCEPT !.writes = @ + 1, !.wkey = r.key, !.at = now,
                                 !.seq = WritesDone + 1],
                       r.w)]
      ELSE /\ calls' = [calls EXCEPT ![i] = Reject(c, r.error)]
           /\ UNCHANGED storage

\* store(data, storageLabel)
Call_store(d, sl) ==
  /\ NextCall \in DOMAIN calls
  /\ DoStore(NextCall, [NewCall("store", sl) EXCEPT !.arg = d], d, sl)
  /\ UNCHANGED <<config, this, now, probe>>

\* The first steps of tokenData's chain, after load resolved with rec: the
\* expiry decision, the refresh request, and the hand-over to fetchFn.
tokenDataLoaded(c, rec, self, t) ==
  LET expired == isExpired(TRUE, rec, self.leeway, t)
      c1 == [c EXCEPT !.loaded = rec, !.hit = ~expired]
  IN  IF ~expired
      THEN fetchRetry(c1, Request("tokenData", "", ""), self.retries, self.retryDelay)
      ELSE fetchRetry([c1 EXCEPT !.built = @ + 1],
                      Request("refresh", _requestLabel(self), rec.refresh_token),
                      self.retries, self.retryDelay)

\* tokenData(storageLabel)
Call_tokenData(sl) ==
  /\ NextCall \in DOMAIN calls
  /\ LET c == NewCall("tokenData", sl)
         l == load(storage, c.label, this.id)
     IN  calls' = [calls EXCEPT ![NextCall] =
           IF l.ok THEN tokenDataLoaded(c, l.rec, this, now) ELSE Reject(c, l.error)]
  /\ UNCHANGED <<config, this, storage, now, probe>>

\* account(label): the chain of tokenData(label) first.
Call_account(sl) ==
  /\ NextCall \in DOMAIN calls
  /\ LET c == NewCall("account", sl)
         l == load(storage, c.label, this.id)
     IN  calls' = [calls EXCEPT ![NextCall] =
           IF l.ok THEN tokenDataLoaded(c, l.rec, this, now) ELSE Reject(c, l.error)]
  /\ UNCHANGED <<config, this, storage, now, probe>>

\* The first steps of revokeRefreshToken's chain, after load resolved.
revokeLoaded(c, rec, self) ==
  fetchRetry([c EXCEPT !.loaded = rec, !.built = @ + 1],
             Request("revoke", _requestLabel(self), rec.refresh_token),
             self.retries, self.retryDelay)

\* revokeRefreshToken(storageLabel)
Call_revokeRefreshToken(sl) ==
  /\ NextCall \in DOMAIN calls
  /\ LET c == NewCall("revokeRefreshToken", sl)
         l == load(storage, c.label, this.id)
     IN  calls' = [calls EXCEPT ![NextCall] =
           IF l.ok THEN revokeLoaded(c, l.rec, this) ELSE Reject(c, l.error)]
  /\ UNCHANGED <<config, this, storage, now, probe>>

\* A variant of the body read that does not re-load: the merge is made over
\* the record the call loaded when it started.
BodyReadNoReload(i, parsable, b) ==
  /\ calls[i].pc = "parsing"
  /\ calls[i].op \in {"tokenData", "account", "revokeRefreshToken"}
  /\ LET c == calls[i]
     IN  calls' = [calls EXCEPT ![i] =
           IF ~parsable THEN Reject([c EXCEPT !.badBody = TRUE], "not JSON")
           ELSE IF c.req.kind = "account" THEN [c EXCEPT !.pc = "resolved", !.body = b]
           ELSE [c EXCEPT !.pc = "storing", !.body = b, !.old = c.loaded,
                          !.oldSeq = WritesDone]]
  /\ UNCHANGED <<config, this, storage, now, probe>>

\* response.json() settles; on success the chain of a refresh or a revoke
\* re-loads the record under the call's label, and account resolves with
\* the parsed body.
BodyRead(i, parsable, b) ==
  /\ calls[i].pc = "parsing"
  /\ calls[i].op \in {"tokenData", "account", "revokeRefreshToken"}
  /\ LET c == calls[i]
         l == load(storage, c.label, this.id)
     IN  calls' = [calls EXCEPT ![i] =
           IF ~parsable THEN Reject([c EXCEPT !.badBody = TRUE], "not JSON")
           ELSE IF c.req.kind = "account" THEN [c EXCEPT !.pc = "resolved", !.body = b]
           ELSE IF ~l.ok THEN Reject([c EXCEPT !.body = b], l.error)
           ELSE [c EXCEPT !.pc = "storing", !.body = b, !.old = l.rec,
                          !.oldSeq = WritesDone]]
  /\ UNCHANGED <<config, this, storage, now, probe>>

\* Variants of the merges that overwrite blindly, dropping the prior record.
RefreshMergeBlind(old, b) ==
  [EmptyData EXCEPT !.access_token = b.access_token, !.expires_in = b.expires_in]
RevokeMergeBlind(old, b) == [EmptyData EXCEPT !.refresh_token = b.refresh_token]

\* The merged record each pipeline hands to store.
RefreshMerge(old, b) ==
  [old EXCEPT !.access_token = b.access_token, !.expires_in = b.expires_in]
RevokeMerge(old, b) == [old EXCEPT !.refresh_token = b.refresh_token]

\* The storageLabel the pipelines pass to store: none.
MergeStoreLabel(c) == ""

\* .then(old => this.store({...old, ...}))
StoreMerged(i) ==
  /\ calls[i].pc = "storing"
  /\ LET c == calls[i]
         merged == IF c.op = "revokeRefreshToken" THEN RevokeMerge(c.old, c.body)
                   ELSE RefreshMerge(c.old, c.body)
     IN  DoStore(i, [c EXCEPT !.arg = merged], merged, MergeStoreLabel(c))
  /\ UNCHANGED <<config, this, now, probe>>

\* ------------------------------------- the sign-in variant of Account
\* this.id after signOut set it to null.
NoId == ""

\* `account_${id}`
AccountKey(id) == "account_" \o id

\* _getTokenDataP: {} without an id or without an item, else the parsed item.
_getTokenDataP(st, id) ==
  IF id = NoId THEN [ok |-> TRUE, rec |-> EmptyData, error |-> ""]
  ELSE IF st[AccountKey(id)].kind = "none"
  THEN [ok |-> TRUE, rec |-> EmptyData, error |-> ""]
  ELSE IF st[AccountKey(id)].kind = "bad"
  THEN [ok |-> FALSE, rec |-> EmptyData,
        error |-> "Error occured when parse from account data"]
  ELSE [ok |-> TRUE, rec |-> st[AccountKey(id)].rec, error |-> ""]

\* _saveTokenData(data) against the storage map st: the truthy fields of
\* data merged over the stored record and written under `account_${id}`;
\* without an id, or with a stored item that does not parse, nothing is
\* written. st2 is the storage map it leaves.
_saveTokenData(st, id, data, t) ==
  LET g == _getTokenDataP(st, id)
      a == IF data.access_token # Missing
           THEN [g.rec EXCEPT !.access_token = data.access_token] ELSE g.rec
      r == IF data.refresh_token # Missing
           THEN [a EXCEPT !.refresh_token = data.refresh_token] ELSE a
      n == Number(data.expires_in)
      e == IF Truthy(data.expires_in)
           THEN [r EXCEPT !.expires_in = data.expires_in,
                          !.expires_time =
                             Num(t + (IF n.t = "number" THEN n.n ELSE 0) * 1000)]
           ELSE r
  IN  IF ~g.ok \/ id = NoId
      THEN [wrote |-> 0, st2 |-> st]
      ELSE [wrote |-> 1, st2 |-> [st EXCEPT ![AccountKey(id)] = JsonItem(e)]]

\* saveData(tokenData => this._saveTokenData(tokenData), data)
saveData(st, id, data, t) == _saveTokenData(st, id, data, t)

\* this._fetchRetry(() => this.provider.xRequest(...)): the factory invokes
\* the request builder on every attempt.
_fetchRetry(c, req, self) ==
  fetchRetry([c EXCEPT !.requestFn = "fresh"], req, self.retries, self.retryDelay)

\* _fetchToken(authKey, params), up to the first fetch
_fetchToken(c, authKey, self) ==
  IF authKey = "" THEN Reject(c, "Incorrect parameter authKey")
  ELSE _fetchRetry([c EXCEPT !.via = "_fetchToken"],
                   Request("accessTokenRequest", authKey, ""), self)

\* _fetchRefreshToken(label, refreshToken), up to the first fetch
_fetchRefreshToken(c, label, refreshToken, self) ==
  IF label = "" THEN Reject(c, "Incorrect parameter label")
  ELSE IF refreshToken = Missing THEN Reject(c, "Incorrect parameter refreshToken")
  ELSE _fetchRetry([c EXCEPT !.via = "_fetchRefreshToken"],
                   Request("refreshAccessTokenRequest", label, refreshToken), self)

\* fetchAccount(data), up to its fetch
fetchAccount(c, data, self) ==
  _fetchRetry([c EXCEPT !.body = data],
              Request("accountRequest", self.label, data.access_token), self)

\* A new call of the sign-in variant.
NewLegacyCall(op) ==
  [NoCall EXCEPT !.op = op, !.start = storage, !.signedOut = (this.id = NoId)]

\* The options of signIn: credentials, a refresh token, token data, none.
SignInOptions == {"auth_key", "refresh_token", "data", "none"}
SignInData == Body("A1", "R1", Num(MaxExpiresIn))

\* signIn(options)
Call_signIn(o) ==
  /\ NextCall \in DOMAIN calls
  /\ LET c == NewLegacyCall("signIn")
         g == _getTokenDataP(storage, this.id)
         expired == isExpired(TRUE, g.rec, this.leeway, now)
         s == _saveTokenData(storage, this.id, SignInData, now)
         getTokenDataById ==
           IF ~g.ok THEN Reject(c, g.error)
           ELSE IF expired
           THEN _fetchRefreshToken(c, this.label, g.rec.refresh_token, this)
           ELSE Resolve(c, g.rec)
     IN  /\ storage' = IF o = "data" THEN s.st2 ELSE storage
         /\ calls' = [calls EXCEPT ![NextCall] =
              CASE o = "auth_key" ->
                     IF ~g.ok THEN Reject(c, g.error)
                     ELSE IF expired \/ this.id = NoId
                     THEN _fetchToken(c, "key", this)
                     ELSE Resolve(c, g.rec)
                [] o = "refresh_token" ->
                     IF ~g.ok THEN Reject(c, g.error)
                     ELSE IF expired \/ this.id = NoId
                     THEN _fetchRefreshToken(c, this.label, "R9", this)
                     ELSE Resolve(c, g.rec)
                [] o = "data" ->
                     [getTokenDataById EXCEPT !.writes = s.wrote,
                        !.wkey = IF s.wrote = 1 THEN AccountKey(this.id) ELSE ""]
                [] OTHER ->
                     IF this.id # NoId THEN getTokenDataById
                     ELSE Reject(c, "Missing required options")]
  /\ UNCHANGED <<config, this, now, probe>>

\* refresh(id)() and revoke(label)(), called with the label of the instance
Call_refresh ==
  /\ NextCall \in DOMAIN calls
  /\ LET c == NewLegacyCall("refresh")
         g == _getTokenDataP(storage, this.id)
     IN  calls' = [calls EXCEPT ![NextCall] =
           IF ~g.ok THEN Reject(c, g.error)
           ELSE IF g.rec.refresh_token = Missing
           THEN Reject(c, "Missing 'refresh_token' in account data")
           ELSE _fetchRefreshToken(c, this.label, g.rec.refresh_token, this)]
  /\ UNCHANGED <<config, this, storage, now, probe>>

Call_revoke ==
  /\ NextCall \in DOMAIN calls
  /\ LET c == NewLegacyCall("revoke")
         g == _getTokenDataP(storage, this.id)
     IN  calls' = [calls EXCEPT ![NextCall] =
           IF ~g.ok THEN Reject(c, g.error)
           ELSE IF g.rec.refresh_token = Missing
           THEN Reject(c, "Missing 'refresh_token' in account data")
           ELSE _fetchRetry(c, Request("revokeRefreshTokenRequest", this.label,
                                       g.rec.refresh_token), this)]
  /\ UNCHANGED <<config, this, storage, now, probe>>

\* load(authKey) of the sign-in variant: the item under this.id, parsed.
Call_legacy_load(authKey) ==
  /\ NextCall \in DOMAIN calls
  /\ LET c == NewLegacyCall("legacy_load")
         item == IF this.id = NoId THEN NoItem ELSE storage[this.id]
     IN  calls' = [calls EXCEPT ![NextCall] =
           IF authKey = "" /\ this.id = NoId THEN Reject(c, "label is absent")
           ELSE IF item.kind = "none" THEN Reject(c, "Can not parse")
           ELSE IF item.kind = "bad" THEN Reject(c, "SyntaxError")
           ELSE Resolve(c, item.rec)]
  /\ UNCHANGED <<config, this, storage, now, probe>>

\* store(data) of the sign-in variant: written under this.id, the expiry
\* derived from expires_in alone.
Call_legacy_store(d) ==
  /\ NextCall \in DOMAIN calls
  /\ LET c == [NewLegacyCall("legacy_store") EXCEPT !.arg = d]
         n == Number(d.expires_in)
         w == IF Truthy(d.expires_in)
              THEN [d EXCEPT !.expires_time = Num(n.n * 1000)] ELSE d
     IN  IF this.id = NoId
         THEN /\ calls' = [calls EXCEPT ![NextCall] = Reject(c, "id is absent")]
              /\ UNCHANGED storage
         ELSE IF Truthy(d.expires_in) /\ isNaN(n)
         THEN /\ calls' = [calls EXCEPT ![NextCall] =
                   Reject(c, "Wrong expires_in value")]
              /\ UNCHANGED storage
         ELSE /\ storage' = [storage EXCEPT ![this.id] = JsonItem(w)]
              /\ calls' = [calls EXCEPT ![NextCall] =
                   Resolve([c EXCEPT !.writes = 1, !.wkey = this.id, !.at = now], w)]
  /\ UNCHANGED <<config, this, now, probe>>

\* signOut(): with an id, the item of the account is removed and the id
\* cleared; without one it throws.
signOut ==
  /\ IF this.id # NoId
     THEN /\ storage' = [storage EXCEPT ![AccountKey(this.id)] = NoItem]
          /\ this' = [this EXCEPT !.id = NoId]
     ELSE UNCHANGED <<this, storage>>
  /\ UNCHANGED <<config, now, calls, probe>>

\* response.json() of a fetch of the sign-in variant settles: a token
\* response is saved, after the account of an instance without id was
\* fetched and its id taken from that response (rid); a revoke response is
\* saved.
LegacyBodyRead(i, parsable, b, rid) ==
  /\ calls[i].pc = "parsing"
  /\ calls[i].op \in {"signIn", "refresh", "revoke"}
  /\ LET c == calls[i]
         id2 == IF c.req.kind = "accountRequest" THEN rid ELSE this.id
         data == IF c.req.kind = "accountRequest" THEN c.body ELSE b
         s == IF c.via = "_fetchRefreshToken"
              THEN saveData(storage, id2, data, now)
              ELSE _saveTokenData(storage, id2, data, now)
         saved == [c EXCEPT !.body = data, !.writes = @ + s.wrote,
                            !.wkey = IF s.wrote = 1 THEN AccountKey(id2) ELSE @,
                            !.at = now]
     IN  IF ~parsable
         THEN /\ calls' = [calls EXCEPT ![i] =
                   Reject([c EXCEPT !.badBody = TRUE], "not JSON")]
              /\ UNCHANGED <<this, storage>>
         ELSE IF c.req.kind \in {"accessTokenRequest", "refreshAccessTokenRequest"}
                 /\ this.id = NoId
         THEN /\ calls' = [calls EXCEPT ![i] = fetchAccount(c, b, this)]
              /\ UNCHANGED <<this, storage>>
         ELSE /\ this' = [this EXCEPT !.id = id2]
              /\ storage' = s.st2
              /\ calls' = [calls EXCEPT ![i] = Resolve(saved, EmptyData)]
  /\ UNCHANGED <<config, now, probe>>

\* ------------------------------------------------------- specifications
\* The config of the instance: only the mandatory fields given.
DefaultConfig ==
  [audience |-> "aud", label |-> Missing, retries |-> Undefined,
   retryDelay |-> Undefined, leeway |-> Undefined, requestMode |-> Missing]

\* What the storage handed to the constructor may already hold.
InitItems ==
  {NoItem, BadItem,
   StoredAtZero(TokenData("A", "R", Num(1), Undefined, "Bearer")),
   StoredAtZero(TokenData("A", "R", Num(MaxExpiresIn), Undefined, "Bearer"))}
InitAltItems ==
  {NoItem, StoredAtZero(TokenData("B", "S", Num(MaxExpiresIn), Undefined, Missing))}

\* No expiry check applied yet.
NoProbe ==
  [fn |-> "none", present |-> FALSE, x |-> EmptyData, leeway |-> 0, t |-> 0,
   result |-> FALSE]

Init ==
  /\ config = DefaultConfig
  /\ this = constructor(config)
  /\ storage \in {[k \in Keys |-> IF k = "alt" THEN a
                                   ELSE IF k = "me.aud" THEN m ELSE NoItem] :
                    m \in InitItems, a \in InitAltItems}
  /\ now = 0
  /\ calls = [i \in CallIds |-> NoCall]
  /\ probe = NoProbe

\* The calls and inputs of the pipeline specification: one storable and one
\* unstorable TokenData.
PipelineInputs ==
  {TokenData("A", "R", ein, Undefined, "Bearer") : ein \in {Num(MaxExpiresIn), Str}}
PipelineStatuses == {0, 200, 300}

Next ==
  \/ \E sl \in StorageLabels : Call_load(sl)
  \/ \E sl \in StorageLabels : Call_remove(sl)
  \/ \E d \in PipelineInputs, sl \in StorageLabels : Call_store(d, sl)
  \/ \E sl \in StorageLabels : Call_tokenData(sl)
  \/ \E sl \in StorageLabels : Call_revokeRefreshToken(sl)
  \/ \E i \in CallIds : FetchFails(i, "E1")
  \/ \E i \in CallIds : TimerFires(i)
  \/ \E i \in CallIds, st \in PipelineStatuses : FetchResponds(i, st)
  \/ \E i \in CallIds, b \in ResponseBodies : BodyRead(i, TRUE, b)
  \/ \E i \in CallIds : BodyRead(i, FALSE, NoBody)
  \/ \E i \in CallIds : StoreMerged(i)
  \/ Tick

Spec == Init /\ [][Next]_vars

\* The instance constructed over an empty storage.
InitEmpty ==
  /\ config = DefaultConfig
  /\ this = constructor(config)
  /\ storage = [k \in Keys |-> NoItem]
  /\ now = 0
  /\ calls = [i \in CallIds |-> NoCall]
  /\ probe = NoProbe

\* ---- the storage operations alone, over the full range of store inputs
NextStore ==
  \/ \E sl \in StorageLabels : Call_load(sl)
  \/ \E sl \in StorageLabels : Call_remove(sl)
  \/ \E d \in StoreInputs, sl \in StorageLabels : Call_store(d, sl)
  \/ Tick

SpecStore == Init /\ [][NextStore]_vars

\* ---- the retry-fetch executor called directly
Statuses == {0, 199, 200, 299, 300}
TransportErrors == {"E1", "E2"}

NextRetry ==
  \/ \E n \in 0..MaxRetries : Call_fetchRetry(n)
  \/ \E i \in CallIds, e \in TransportErrors : FetchFails(i, e)
  \/ \E i \in CallIds : TimerFires(i)
  \/ \E i \in CallIds, st \in Statuses : FetchResponds(i, st)
  \/ Tick

SpecRetry == InitEmpty /\ [][NextRetry]_vars

\* ---- the pipelines of an instance configured with each requestMode, its
\* calls made one after the other
\* (two attempts per fetch, nothing stored under the other key)
Configs ==
  {[DefaultConfig EXCEPT !.requestMode = m, !.retries = Num(2)] :
     m \in {Missing, "id", "label"}}
AccountStatuses == {199, 200, 299, 300}
AccountBodies == {Body("A2", Missing, Num(MaxExpiresIn))}

InitAccount ==
  /\ config \in Configs
  /\ this = constructor(config)
  /\ storage \in {[k \in Keys |-> IF k = "me.aud" THEN m ELSE NoItem] : m \in InitItems}
  /\ now = 0
  /\ calls = [i \in CallIds |-> NoCall]
  /\ probe = NoProbe

\* Every call made so far has settled.
Quiet == \A i \in CallIds : calls[i].pc \in {"idle", "resolved", "rejected"}

NextAccount ==
  \/ \E sl \in StorageLabels : Quiet /\ Call_account(sl)
  \/ \E sl \in StorageLabels : Quiet /\ Call_tokenData(sl)
  \/ \E sl \in StorageLabels : Quiet /\ Call_revokeRefreshToken(sl)
  \/ \E i \in CallIds : FetchFails(i, "E1")
  \/ \E i \in CallIds : TimerFires(i)
  \/ \E i \in CallIds, st \in AccountStatuses : FetchResponds(i, st)
  \/ \E i \in CallIds, b \in AccountBodies : BodyRead(i, TRUE, b)
  \/ \E i \in CallIds : BodyRead(i, FALSE, NoBody)
  \/ \E i \in CallIds : StoreMerged(i)
  \/ Tick

SpecAccount == InitAccount /\ [][NextAccount]_vars

\* ---- the sign-in variant: sign-in, refresh, revoke and sign-out
LegacyItems ==
  {NoItem,
   StoredAtZero(TokenData("A", "R", Num(1), Undefined, "Bearer")),
   StoredAtZero(TokenData("A", "R", Num(MaxExpiresIn), Undefined, "Bearer"))}

InitLegacy ==
  /\ config = [DefaultConfig EXCEPT !.retries = Num(2)]
  /\ this = constructor(config)
  /\ storage \in {[k \in Keys |-> IF k = AccountKey("me.aud") THEN m ELSE NoItem] :
                    m \in LegacyItems}
  /\ now = 0
  /\ calls = [i \in CallIds |-> NoCall]
  /\ probe = NoProbe

NextLegacy ==
  \/ \E o \in SignInOptions : Call_signIn(o)
  \/ Call_refresh
  \/ Call_revoke
  \/ \E k \in StorageLabels : Call_legacy_load(k)
  \/ \E d \in PipelineInputs : Call_legacy_store(d)
  \/ signOut
  \/ \E i \in CallIds : FetchFails(i, "E1")
  \/ \E i \in CallIds : TimerFires(i)
  \/ \E i \in CallIds, st \in AccountStatuses : FetchResponds(i, st)
  \/ \E i \in CallIds, b \in AccountBodies : LegacyBodyRead(i, TRUE, b, "me.aud")
  \/ \E i \in CallIds : LegacyBodyRead(i, FALSE, NoBody, "me.aud")
  \/ Tick

SpecLegacy == InitLegacy /\ [][NextLegacy]_vars

\* ---- a refresh and a revoke racing on the key of the account: one call
\* more than MaxCalls may be started, over an expired stored record, with a
\* transport that answers every first attempt
RaceIds == 1..(MaxCalls + 1)
RaceBodies == {Body("A2", Missing, Num(MaxExpiresIn)), Body("A3", "R2", Undefined)}

InitRace ==
  /\ config = DefaultConfig
  /\ this = constructor(config)
  /\ storage = [k \in Keys |->
                  IF k = "me.aud"
                  THEN StoredAtZero(TokenData("A", "R", Num(1), Undefined, "Bearer"))
                  ELSE NoItem]
  /\ now = 0
  /\ calls = [i \in RaceIds |-> NoCall]
  /\ probe = NoProbe

NextRace ==
  \/ Call_tokenData("")
  \/ Call_revokeRefreshToken("")
  \/ \E i \in RaceIds, st \in {200, 300} : FetchResponds(i, st)
  \/ \E i \in RaceIds, b \in RaceBodies : BodyRead(i, TRUE, b)
  \/ \E i \in RaceIds : BodyRead(i, FALSE, NoBody)
  \/ \E i \in RaceIds : StoreMerged(i)
  \/ Tick

SpecRace == InitRace /\ [][NextRace]_vars

\* ---- the pipelines of an instance configured with each retry count
RetriesConfigs ==
  {[DefaultConfig EXCEPT !.retries = r] :
     r \in {Undefined} \cup {Num(n) : n \in 0..MaxRetries}}

InitRetries ==
  /\ config \in RetriesConfigs
  /\ this = constructor(config)
  /\ storage = [k \in Keys |->
                  IF k = "me.aud"
                  THEN StoredAtZero(TokenData("A", "R", Num(1), Undefined, "Bearer"))
                  ELSE NoItem]
  /\ now = 0
  /\ calls = [i \in CallIds |-> NoCall]
  /\ probe = NoProbe

NextRetries ==
  \/ Call_tokenData("")
  \/ Call_revokeRefreshToken("")
  \/ \E i \in CallIds : FetchFails(i, "E1")
  \/ \E i \in CallIds : TimerFires(i)
  \/ \E i \in CallIds, st \in AccountStatuses : FetchResponds(i, st)
  \/ \E i \in CallIds, b \in AccountBodies : BodyRead(i, TRUE, b)
  \/ \E i \in CallIds : BodyRead(i, FALSE, NoBody)
  \/ \E i \in CallIds : StoreMerged(i)
  \/ Tick

SpecRetries == InitRetries /\ [][NextRetries]_vars

\* ---- the executor under a fair transport and fair timers
\* Time passes beyond the horizon of Tick for as long as a timer that was
\* set is not yet due.
TimerWait ==
  /\ now >= MaxTicks * AJAX_RETRY_DELAY
  /\ \E i \in CallIds : calls[i].pc = "delay" /\ now < calls[i].due
  /\ now' = now + AJAX_RETRY_DELAY
  /\ UNCHANGED <<config, this, storage, calls, probe>>

\* The transport settles the attempt of call i that is in flight.
Transport(i) ==
  \/ FetchFails(i, "E1")
  \/ \E st \in PipelineStatuses : FetchResponds(i, st)

NextRetryLive ==
  \/ \E n \in 0..MaxRetries : Call_fetchRetry(n)
  \/ \E i \in CallIds : Transport(i)
  \/ \E i \in CallIds : TimerFires(i)
  \/ Tick
  \/ TimerWait

\* Every attempt eventually succeeds or fails, time passes, and every timer
\* that is due eventually fires.
SpecRetryLive ==
  /\ InitEmpty
  /\ [][NextRetryLive]_vars
  /\ \A i \in CallIds : WF_vars(Transport(i)) /\ WF_vars(TimerFires(i))
  /\ WF_vars(Tick \/ TimerWait)

\* ---- the expiry check applied directly
Leeways == {0, AJAX_RETRY_DELAY, LEEWAY}
ExpiresTimes == {Undefined, Null} \cup {Num(k * AJAX_RETRY_DELAY) : k \in 0..MaxExpiresIn}

\* isExpired(x, leeway) called with x absent (present = FALSE) or a record.
Call_isExpired(present, etime, leeway) ==
  /\ LET x == [EmptyData EXCEPT !.expires_time = etime]
     IN  probe' = [fn |-> "isExpired", present |-> present, x |-> x,
                   leeway |-> leeway, t |-> now,
                   result |-> isExpired(present, x, leeway, now)]
  /\ UNCHANGED <<config, this, storage, now, calls>>

NextExpiry ==
  \/ \E p \in BOOLEAN, e \in ExpiresTimes, l \in Leeways : Call_isExpired(p, e, l)
  \/ Tick

SpecExpiry == InitEmpty /\ [][NextExpiry]_vars

\* ===================================================================
\* Claims
\* ===================================================================

\* Call i made the step that settles it with a write to storage.
Wrote(i) ==
  /\ calls[i].pc # "resolved"
  /\ calls'[i].pc = "resolved"
  /\ calls'[i].writes = calls[i].writes + 1

\* The record persisted by the write call i just made.
Persisted(i) == storage'[calls'[i].wkey].rec

\* C1: a tokenData call whose loaded record is not expired resolves to the
\* loaded record as-is; it invokes no request builder, makes no fetch attempt
\* and writes nothing to storage.
C1_CacheHitFastPath ==
  \A i \in CallIds :
    (calls[i].op = "tokenData" /\ calls[i].hit) =>
      /\ calls[i].pc = "resolved"
      /\ calls[i].value = calls[i].loaded
      /\ calls[i].built = 0
      /\ calls[i].attempts = 0
      /\ calls[i].writes = 0

\* C2 as stated: after a refresh (the cached record was found expired, the
\* request carries the cached refresh_token) the persisted record has
\* access_token and expires_in of the response and EVERY other field,
\* expires_time included, equal to the record that was in storage just before
\* the write, as the call re-loaded it.
C2_RefreshMergeAllOtherFields ==
  [][\A i \in CallIds :
       (Wrote(i) /\ calls[i].op = "tokenData" /\ ~calls[i].hit) =>
         /\ calls[i].req = Request("refresh", _requestLabel(this),
                                   calls[i].loaded.refresh_token)
         /\ Persisted(i).access_token = calls[i].body.access_token
         /\ Persisted(i).expires_in = JsonValue(calls[i].body.expires_in)
         /\ Persisted(i).refresh_token = calls[i].old.refresh_token
         /\ Persisted(i).token_type = calls[i].old.token_type
         /\ Persisted(i).expires_time = calls[i].old.expires_time]_vars

\* C2 amended: after a refresh the persisted record has access_token and
\* expires_in of the response, an expires_time derived by store from that
\* expires_in and the time of the write, and every other field (refresh_token
\* even when the response carries one, token_type) equal to the record the
\* call re-loaded under its key just before the write.
C2_RefreshMerge ==
  [][\A i \in CallIds :
       (Wrote(i) /\ calls[i].op = "tokenData" /\ ~calls[i].hit) =>
         /\ calls[i].req = Request("refresh", _requestLabel(this),
                                   calls[i].loaded.refresh_token)
         /\ calls[i].built = 1
         /\ Persisted(i).access_token = calls[i].body.access_token
         /\ Persisted(i).expires_in = JsonValue(calls[i].body.expires_in)
         /\ Persisted(i).refresh_token = calls[i].old.refresh_token
         /\ Persisted(i).token_type = calls[i].old.token_type
         /\ Persisted(i).expires_time =
              IF Truthy(calls[i].body.expires_in)
              THEN Num(now + Number(calls[i].body.expires_in).n * 1000)
              ELSE Num(0)]_vars

\* C2 witness: a refresh whose response omitted refresh_token was persisted
\* with the new access_token and the cached refresh_token.
C2_Witness ==
  \E i \in CallIds :
    /\ calls[i].op = "tokenData" /\ ~calls[i].hit /\ calls[i].pc = "resolved"
    /\ calls[i].body.refresh_token = Missing
    /\ calls[i].loaded.refresh_token = "R"
    /\ storage[calls[i].wkey].rec.access_token = "A2"
    /\ storage[calls[i].wkey].rec.refresh_token = "R"

\* C3: after a revoke that succeeds against a response carrying
\* refresh_token R2, the persisted record has refresh_token R2 and the
\* access_token of the record stored before, as the call re-read it.
C3_RevokeMerge ==
  [][\A i \in CallIds :
       (Wrote(i) /\ calls[i].op = "revokeRefreshToken"
          /\ calls[i].body.refresh_token = "R2") =>
         /\ Persisted(i).refresh_token = "R2"
         /\ Persisted(i).access_token = calls[i].old.access_token]_vars

\* C3 witness: a revoke answered with R2 was persisted over a record that
\* was stored, with access_token A, before the call started.
C3_Witness ==
  \E i \in CallIds :
    /\ calls[i].op = "revokeRefreshToken" /\ calls[i].pc = "resolved"
    /\ calls[i].start[calls[i].label].rec.access_token = "A"
    /\ calls[i].start[calls[i].label].rec.refresh_token = "R"
    /\ storage[calls[i].wkey].rec.refresh_token = "R2"
    /\ storage[calls[i].wkey].rec.access_token = "A"

\* C4 as stated, for an expires_in that is a number or absent: a record
\* written by store has expires_time = (time of the call) + expires_in * 1000
\* whenever expires_in is present, and 0 when it is absent.
C4_DerivedExpiryWheneverPresent ==
  [][\A i \in CallIds :
       (Wrote(i) /\ calls'[i].op = "store"
          /\ calls'[i].arg.expires_in.t \in {"undefined", "number"}) =>
         LET ein == calls'[i].arg.expires_in
         IN  Persisted(i).expires_time =
               IF ein = Undefined THEN Num(0)
               ELSE Num(now + ein.n * 1000)]_vars

\* C4 amended: a record written by store has expires_time = (time of the
\* call) + expires_in * 1000 when expires_in is present and truthy (not 0,
\* NaN or null), and expires_time = 0 when expires_in is absent or falsy; the
\* expires_time carried by the input is never what decides the written value.
C4_DerivedExpiry ==
  [][\A i \in CallIds :
       (Wrote(i) /\ calls'[i].op = "store") =>
         LET ein == calls'[i].arg.expires_in
         IN  Persisted(i).expires_time =
               IF ein.t \in {"undefined", "null", "NaN"} \/ ein = Num(0)
               THEN Num(0)
               ELSE Num(now + ein.n * 1000)]_vars

\* C4 witness: a store made after the clock moved, of an input carrying its
\* own expires_time, left the derived expires_time in storage.
C4_Witness ==
  \E i \in CallIds :
    /\ calls[i].op = "store" /\ calls[i].pc = "resolved" /\ calls[i].at > 0
    /\ calls[i].arg.expires_in = Num(MaxExpiresIn)
    /\ calls[i].arg.expires_time = Num(1)
    /\ storage[calls[i].wkey].rec.expires_time =
         Num(calls[i].at + MaxExpiresIn * 1000)

\* expires_in is a number or a numeric string, or is absent.
NumericOrAbsent(v) == v.t \in {"undefined", "number", "numstr"}

\* C5: for every TokenData d with numeric or absent expires_in and every key
\* k, after store(d, k) resolved with w, load(k) resolves to a record equal to
\* w, and w agrees with d on every field other than expires_time.
C5_StoreLoadRoundTrip ==
  [][\A i \in CallIds :
       (Wrote(i) /\ calls'[i].op = "store"
          /\ NumericOrAbsent(calls'[i].arg.expires_in)) =>
         LET l == load(storage', calls'[i].label, this.id)
             w == calls'[i].value
             d == calls'[i].arg
         IN  /\ l.ok
             /\ l.rec = w
             /\ w.access_token = d.access_token
             /\ w.refresh_token = d.refresh_token
             /\ w.expires_in = d.expires_in
             /\ w.token_type = d.token_type]_vars

\* C5 witness: a store under the override key resolved and a load of that key
\* gives the resolved record back, with an expires_time other than the input's.
C5_Witness ==
  \E i \in CallIds :
    /\ calls[i].op = "store" /\ calls[i].pc = "resolved"
    /\ calls[i].label = "alt"
    /\ calls[i].arg.expires_in = NumStr(MaxExpiresIn)
    /\ calls[i].arg.expires_time = Num(1)
    /\ load(storage, "alt", this.id).rec = calls[i].value
    /\ calls[i].value.expires_time # Num(1)

\* C9: remove on a key whose load fails (no entry, or an entry that does not
\* parse) rejects with the load failure and removes nothing; on a key holding
\* a record it resolves to that record, the key has no entry afterwards and
\* every other key is unchanged.
C9_Remove ==
  [][\A i \in CallIds :
       (calls[i].op = "none" /\ calls'[i].op = "remove") =>
         LET k == calls'[i].label
         IN  IF storage[k].kind = "json"
             THEN /\ calls'[i].pc = "resolved"
                  /\ calls'[i].value = storage[k].rec
                  /\ calls'[i].removes = 1
                  /\ storage'[k] = NoItem
                  /\ \A o \in Keys \ {k} : storage'[o] = storage[o]
             ELSE /\ calls'[i].pc = "rejected"
                  /\ calls'[i].error =
                       IF storage[k].kind = "none" THEN "Can not load data"
                       ELSE "SyntaxError"
                  /\ calls'[i].removes = 0
                  /\ storage' = storage]_vars

\* C9 witness: a remove of the override key resolved to the record stored
\* there, the key is empty and the account's own key still holds its record.
C9_Witness ==
  \E i \in CallIds :
    /\ calls[i].op = "remove" /\ calls[i].pc = "resolved"
    /\ calls[i].label = "alt"
    /\ calls[i].value.access_token = "B"
    /\ storage["alt"] = NoItem
    /\ storage["me.aud"].kind = "json"

\* C10: store called with an expires_in that is present and not numeric
\* rejects and performs no setItem.
C10_NonNumericRejected ==
  \A i \in CallIds :
    (calls[i].op = "store" /\ calls[i].arg.expires_in.t \in {"NaN", "string"}) =>
      /\ calls[i].pc = "rejected"
      /\ calls[i].writes = 0
      /\ storage = calls[i].start

\* C6: the executor run with retries = N against a transport that fails every
\* attempt makes exactly N attempts and then rejects with the N transport
\* errors in attempt order; with retries = 0 it makes no attempt and rejects
\* with the empty list.
C6_RetryExhaustion ==
  \A i \in CallIds :
    calls[i].op = "fetchRetry" =>
      /\ calls[i].attempts <= calls[i].retries
      /\ calls[i].pc = "rejected" =>
           /\ calls[i].attempts = calls[i].retries
           /\ Len(calls[i].errors) = calls[i].retries
           /\ calls[i].errors = calls[i].failures
      /\ calls[i].retries = 0 =>
           /\ calls[i].pc = "rejected"
           /\ calls[i].attempts = 0
           /\ calls[i].errors = <<>>
      /\ (calls[i].got = <<>> /\ calls[i].pc = "delay") =>
           Len(calls[i].failures) = calls[i].attempts

\* C6 witness: a run with retries = 3 was rejected with the three errors of
\* its three attempts, in order.
C6_Witness ==
  \E i \in CallIds :
    /\ calls[i].op = "fetchRetry" /\ calls[i].pc = "rejected"
    /\ calls[i].retries = MAX_AJAX_RETRY
    /\ calls[i].attempts = MAX_AJAX_RETRY
    /\ calls[i].errors = <<"E1", "E2", "E1">>

\* C7: when attempt k is the first whose transport call succeeds, the executor
\* resolves with that attempt's response, whatever its status, and attempt
\* k + 1 is never made.
C7_RetrySuccessStops ==
  \A i \in CallIds :
    (calls[i].op = "fetchRetry" /\ calls[i].got # <<>>) =>
      /\ calls[i].pc = "resolved"
      /\ Len(calls[i].got) = 1
      /\ calls[i].response = calls[i].got[1]
      /\ calls[i].attempts = Len(calls[i].failures) + 1
      /\ calls[i].attempts <= calls[i].retries

\* C7 witness: the second of three allowed attempts was answered with status
\* 300 and the executor resolved with it.
C7_Witness ==
  \E i \in CallIds :
    /\ calls[i].op = "fetchRetry" /\ calls[i].pc = "resolved"
    /\ calls[i].retries = MAX_AJAX_RETRY
    /\ Len(calls[i].failures) = 1
    /\ calls[i].attempts = 2
    /\ calls[i].response = 300

\* C8: the expiry check returns true iff the record is absent, or its
\* expires_time is absent or zero, or now > expires_time - leeway; at
\* now = expires_time - leeway the record is not expired.
C8_ExpiryPolicy ==
  probe.fn = "isExpired" =>
    LET e == probe.x.expires_time
    IN  probe.result =
          (\/ ~probe.present
           \/ e \in {Undefined, Null, Num(0)}
           \/ (e.t = "number" /\ probe.t - e.n + probe.leeway >= 1))

\* C8 witness: a record checked exactly at expires_time - leeway, with a
\* non-zero leeway, was found not expired.
C8_Witness ==
  /\ probe.fn = "isExpired" /\ probe.present
  /\ probe.leeway = LEEWAY
  /\ probe.x.expires_time = Num(probe.t + probe.leeway)
  /\ probe.t > 0
  /\ ~probe.result

\* C13: a tokenData or revokeRefreshToken call made with an explicit
\* storageLabel different from the account id writes its merged record under
\* that same key, the one it was loaded from, and leaves the entry stored
\* under the account id unchanged.
C13_KeyConsistency ==
  [][\A i \in CallIds :
       (Wrote(i) /\ calls[i].op \in {"tokenData", "revokeRefreshToken"}
          /\ calls[i].label # this.id) =>
         /\ calls'[i].wkey = calls[i].label
         /\ storage'[this.id] = storage[this.id]]_vars

\* C20: a revokeRefreshToken call that succeeds leaves the expires_time of
\* the stored record equal to the value it had before the call, as the call
\* re-read it just before the write.
C20_RevokeKeepsExpiry ==
  [][\A i \in CallIds :
       (Wrote(i) /\ calls[i].op = "revokeRefreshToken") =>
         Persisted(i).expires_time = calls[i].old.expires_time]_vars

\* C14: in every retry sequence started by a tokenData or
\* revokeRefreshToken call for a request the provider built, each attempt
\* submits a request made for that attempt: no request is submitted to the
\* transport more than once.
C14_FreshRequestPerAttempt ==
  \A i \in CallIds :
    (calls[i].op \in {"tokenData", "revokeRefreshToken"} /\ calls[i].built > 0) =>
      \A j, k \in DOMAIN calls[i].submitted :
        j # k => calls[i].submitted[j] # calls[i].submitted[k]

\* The ways a refresh or revoke pipeline fails after its load: the retries
\* are exhausted, a response has a status that is not valid, or the body of
\* a valid response cannot be parsed.
PipelineFailed(i) ==
  \/ calls[i].pc = "rejected" /\ calls[i].error = "errors"
  \/ \E k \in DOMAIN calls[i].got : ~validResponse(calls[i].got[k])
  \/ calls[i].badBody

\* C16: a tokenData or revokeRefreshToken call that fails by retry
\* exhaustion, by a status that is not 2xx or by an unparsable body is
\* rejected with that error, ran none of the later steps of its chain (no
\* re-load, no merge, no store), and wrote nothing: with no write of another
\* call the storage map is the one the call started with.
C16_ErrorShortCircuit ==
  \A i \in CallIds :
    (calls[i].op \in {"tokenData", "revokeRefreshToken"} /\ PipelineFailed(i)) =>
      /\ calls[i].pc = "rejected"
      /\ calls[i].error \in {"errors", "http status", "not JSON"}
      /\ calls[i].body = NoBody
      /\ calls[i].old = EmptyData
      /\ calls[i].arg = EmptyData
      /\ calls[i].writes = 0
      /\ calls[i].wkey = ""
      /\ (\A j \in CallIds \ {i} : calls[j].writes = 0 /\ calls[j].removes = 0)
           => storage = calls[i].start

\* C16 witness: a revoke over a stored record was rejected for the status
\* 300 of its first response, after one failed attempt, and the storage map
\* is the one it started with.
C16_Witness ==
  \E i \in CallIds :
    /\ calls[i].op = "revokeRefreshToken"
    /\ calls[i].pc = "rejected"
    /\ calls[i].error = "http status"
    /\ calls[i].got = <<300>>
    /\ calls[i].attempts = 2
    /\ calls[i].start[calls[i].label].kind = "json"
    /\ storage = calls[i].start

\* The attempts of call i that are with the transport, as the observations
\* count them: started and neither failed nor answered.
InFlight(c) == c.attempts - Len(c.failures) - Len(c.got)

\* C18: within one retry-fetch invocation at most one attempt is in flight;
\* an attempt after the first is started only by the delay timer that the
\* failure of the attempt before it set, once that timer is due; and every
\* failure sets the timer to the same delay.
C18_SequentialAttempts ==
  [][\A i \in CallIds :
       calls'[i].op = "fetchRetry" =>
         /\ InFlight(calls'[i]) \in {0, 1}
         /\ (calls[i].op = "fetchRetry" /\ calls'[i].attempts # calls[i].attempts) =>
              /\ calls'[i].attempts = calls[i].attempts + 1
              /\ calls[i].pc = "delay"
              /\ InFlight(calls[i]) = 0
              /\ Len(calls[i].failures) = calls[i].attempts
              /\ now >= calls[i].due
              /\ calls[i].due = calls[i].failedAt + calls[i].delay
         /\ Len(calls'[i].waits) = Len(calls'[i].failures)
         /\ \A k \in DOMAIN calls'[i].waits :
              calls'[i].waits[k] = calls'[i].delay]_vars

\* C18 witness: a third attempt is in flight after two failures, each
\* followed by the delay.
C18_Witness ==
  \E i \in CallIds :
    /\ calls[i].op = "fetchRetry"
    /\ calls[i].pc = "fetching"
    /\ calls[i].attempts = 3
    /\ calls[i].waits = <<AJAX_RETRY_DELAY, AJAX_RETRY_DELAY>>
    /\ now >= 2 * AJAX_RETRY_DELAY

Settled(c) == c.pc \in {"resolved", "rejected"}

\* C19: with a transport that eventually settles every attempt and timers
\* that eventually fire, every retry-fetch invocation eventually settles,
\* resolved with a response or rejected with the list of the errors of all
\* its attempts; it makes at most `retries` attempts and, once settled, never
\* changes again.
C19_RetryTerminates ==
  /\ \A i \in CallIds :
       (calls[i].op = "fetchRetry") ~> Settled(calls[i])
  /\ [][\A i \in CallIds : Settled(calls[i]) => calls'[i] = calls[i]]_vars
  /\ [](\A i \in CallIds :
          calls[i].op = "fetchRetry" =>
            /\ calls[i].attempts <= calls[i].retries
            /\ calls[i].pc = "resolved" =>
                 Len(calls[i].got) = 1 /\ calls[i].response = calls[i].got[1]
            /\ calls[i].pc = "rejected" =>
                 /\ calls[i].errors = calls[i].failures
                 /\ Len(calls[i].errors) = calls[i].retries)

\* C19 witness: an invocation started at the horizon of the clock settled on
\* its last attempt, after two delays.
C19_Witness ==
  \E i \in CallIds :
    /\ calls[i].op = "fetchRetry"
    /\ calls[i].pc = "resolved"
    /\ calls[i].retries = MaxRetries
    /\ calls[i].attempts = MaxRetries
    /\ now > MaxTicks * AJAX_RETRY_DELAY

\* The identifier the instance addresses the provider by, read off its
\* config: the label under requestMode 'label', the composite id otherwise.
ConfiguredIdent ==
  IF config.requestMode = "label"
  THEN (IF config.label = Missing THEN "me" ELSE config.label)
  ELSE "me.aud"

\* C12: every request the provider builds for a call (account-info,
\* refresh, revoke) is addressed by the label when requestMode is 'label'
\* and by the composite id label.audience when it is 'id' or not given; all
\* calls of the instance use that one identifier.
C12_IdentifierSelection ==
  \A i \in CallIds :
    calls[i].req.kind \in {"account", "refresh", "revoke"} =>
      calls[i].req.ident = ConfiguredIdent

\* C12 witness: under requestMode 'label' an account call built its
\* account-info request, addressed by the label 'me'.
C12_Witness ==
  \E i \in CallIds :
    /\ config.requestMode = "label"
    /\ calls[i].op = "account"
    /\ calls[i].req.kind = "account"
    /\ calls[i].built >= 1
    /\ calls[i].req.ident = "me"

\* C15: a response of a tokenData, account or revokeRefreshToken pipeline
\* with a status outside [200,300) is the last response of the call: the
\* call is rejected with the HTTP status error and makes no fetch attempt
\* after the one that response answered.
C15_StatusNotRetried ==
  \A i \in CallIds :
    calls[i].op \in {"tokenData", "account", "revokeRefreshToken"} =>
      \A k \in DOMAIN calls[i].got :
        (calls[i].got[k] < 200 \/ calls[i].got[k] >= 300) =>
          /\ k = Len(calls[i].got)
          /\ calls[i].pc = "rejected"
          /\ calls[i].error = "http status"
          /\ calls[i].attempts = Len(calls[i].failures) + Len(calls[i].got)

\* C15 witness: the account-info fetch of an account call, the second fetch
\* of its chain, was answered 300 after one failed attempt and the call was
\* rejected with an attempt left.
C15_Witness ==
  \E i \in CallIds :
    /\ calls[i].op = "account"
    /\ calls[i].req.kind = "account"
    /\ calls[i].got = <<200, 300>>
    /\ calls[i].pc = "rejected"
    /\ calls[i].errors = <<"E1">>
    /\ calls[i].n = 1
    /\ calls[i].retries = 2

\* C17: a tokenData, account or revokeRefreshToken call on a key that holds
\* no entry, or an entry that does not parse, is rejected with the load
\* failure; no request was built for it, no fetch attempt was made and it
\* wrote nothing.
C17_LoadFailureFirst ==
  \A i \in CallIds :
    (calls[i].op \in {"tokenData", "account", "revokeRefreshToken"}
       /\ calls[i].start[calls[i].label].kind # "json") =>
      /\ calls[i].pc = "rejected"
      /\ calls[i].error \in {"Can not load data", "SyntaxError"}
      /\ calls[i].req = NoRequest
      /\ calls[i].built = 0
      /\ calls[i].attempts = 0
      /\ calls[i].submitted = <<>>
      /\ calls[i].writes = 0
      /\ (\A j \in CallIds \ {i} : calls[j].writes = 0) => storage = calls[i].start

\* C17 witness: an account call on the key 'alt', which holds nothing, was
\* rejected while the account id holds a record.
C17_Witness ==
  \E i \in CallIds :
    /\ calls[i].op = "account"
    /\ calls[i].label = "alt"
    /\ calls[i].pc = "rejected"
    /\ calls[i].error = "Can not load data"
    /\ storage[this.id].kind = "json"
    /\ storage["alt"].kind = "none"

\* C11: once signOut has cleared the id of the instance, the id stays
\* cleared, no token data is written to storage, and no operation invoked
\* after the sign-out (sign-in with credentials or with a refresh token,
\* load, store, refresh, revoke) succeeds; a sign-in whose fetch was in
\* flight at the sign-out writes nothing either.
C11_SignOutTerminal ==
  [][this.id = NoId =>
       /\ this'.id = NoId
       /\ storage' = storage
       /\ \A i \in CallIds :
            calls'[i].signedOut => calls'[i].pc # "resolved"]_vars

\* The call that wrote last.
LastWriter(i) == calls[i].seq = WritesDone /\ calls[i].seq > 0

\* Calls r and v are a refresh and a revoke on one key that both succeeded.
RefreshAndRevoke(r, v) ==
  /\ calls[r].op = "tokenData" /\ ~calls[r].hit
  /\ calls[v].op = "revokeRefreshToken"
  /\ calls[r].label = calls[v].label
  /\ calls[r].pc = "resolved" /\ calls[v].pc = "resolved"
  /\ calls[r].wkey = calls[v].wkey

\* C21 as stated: when a refresh and a revoke on one key both succeeded and
\* one of them wrote last, the stored record holds the access_token the
\* refresh was answered with and the refresh_token the revoke was answered
\* with, however their steps were interleaved.
C21_NoLostUpdate ==
  \A r, v \in DOMAIN calls :
    (RefreshAndRevoke(r, v) /\ (LastWriter(r) \/ LastWriter(v))) =>
      /\ storage[calls[r].wkey].rec.access_token = calls[r].body.access_token
      /\ storage[calls[r].wkey].rec.refresh_token = calls[v].body.refresh_token

\* The token a call renews, read from a record or a body x: access_token
\* for a refresh, refresh_token for a revoke.
TokenOf(i, x) ==
  IF calls[i].op = "tokenData" THEN x.access_token ELSE x.refresh_token

\* C21 amended: when a refresh and a revoke on one key both succeeded and l
\* wrote last, e before it, the stored record holds the token l was answered
\* with; it holds the token e was answered with when l re-loaded the record
\* that e wrote; when l re-loaded before e wrote, the last writer wins: the
\* field e renewed is as l re-loaded it.
C21_LastWriterWins ==
  \A l, e \in DOMAIN calls :
    ((RefreshAndRevoke(l, e) \/ RefreshAndRevoke(e, l))
       /\ LastWriter(l) /\ calls[e].seq > 0) =>
      LET rec == storage[calls[l].wkey].rec
      IN  /\ TokenOf(l, rec) = TokenOf(l, calls[l].body)
          /\ calls[l].oldSeq = calls[e].seq =>
               TokenOf(e, rec) = TokenOf(e, calls[e].body)
          /\ calls[l].oldSeq < calls[e].seq =>
               TokenOf(e, rec) = TokenOf(e, calls[l].old)

\* C21 witness: a refresh answered with A2 and a revoke answered with R2
\* both succeeded; the revoke, which re-loaded before the refresh wrote,
\* wrote last: the record holds R2 and the access_token A from before.
C21_Witness ==
  \E r, v \in DOMAIN calls :
    /\ RefreshAndRevoke(r, v)
    /\ LastWriter(v)
    /\ calls[v].oldSeq < calls[r].seq
    /\ calls[r].body.access_token = "A2"
    /\ calls[v].body.refresh_token = "R2"
    /\ storage[calls[v].wkey].rec.refresh_token = "R2"
    /\ storage[calls[v].wkey].rec.access_token = "A"

\* C22: a tokenData or revokeRefreshToken call of an instance constructed
\* with config.retries = N, N = 0 included, makes at most N fetch attempts;
\* of an instance constructed without retries, at most the default of 3.
C22_ConfiguredRetries ==
  \A i \in CallIds :
    calls[i].op \in {"tokenData", "revokeRefreshToken"} =>
      calls[i].attempts <=
        (IF config.retries.t = "number" THEN config.retries.n ELSE MAX_AJAX_RETRY)

====
